---- MODULE Spec2Model ----
(***************************************************************************)
(* Rust-ETL: the JSON -> Parquet normalization engine                      *)
(* (processor.rs, process_json_to_parquet and byte_arrays) and the run     *)
(* loop of the binary (main.rs, with analysis.rs process_raw_to_parquet    *)
(* and api.rs fetch_data_to_disk).                                         *)
(*                                                                         *)
(* JSON values, column types and cells are records of one uniform shape,   *)
(* so that any two of them can be compared.                                *)
(***************************************************************************)
EXTENDS Integers, Sequences, FiniteSets, TLC

\* ------------------------------------------------------------------ bounds
\* Longest bare array of records / longest nested list in a generated input.
MaxRows == 2
MaxList == 2
\* Most endpoints in a loaded catalog.
MaxEndpoints == 2

\* ------------------------------------------------------------- JSON values
\* t: null | int | float | str | list | obj | invalid (bytes that are no JSON)
\* i: the number; b: a string's bytes; k: an object's keys; l: the elements of
\* a list, or an object's values (in key order).
VNull == [t |-> "null", i |-> 0, b |-> <<>>, k |-> <<>>, l |-> <<>>]
VInvalid == [t |-> "invalid", i |-> 0, b |-> <<>>, k |-> <<>>, l |-> <<>>]
VInt(n) == [t |-> "int", i |-> n, b |-> <<>>, k |-> <<>>, l |-> <<>>]
VFloat(n) == [t |-> "float", i |-> n, b |-> <<>>, k |-> <<>>, l |-> <<>>]
VStr(bytes) == [t |-> "str", i |-> 0, b |-> bytes, k |-> <<>>, l |-> <<>>]
VList(elems) == [t |-> "list", i |-> 0, b |-> <<>>, k |-> <<>>, l |-> elems]
VObj(keys, vals) == [t |-> "obj", i |-> 0, b |-> <<>>, k |-> keys, l |-> vals]

\* The value of `key` in object `o`; null when the key is missing.
Field(o, key) ==
    IF o.t = "obj" /\ \E j \in 1..Len(o.k) : o.k[j] = key
    THEN o.l[CHOOSE j \in 1..Len(o.k) : o.k[j] = key]
    ELSE VNull

\* ------------------------------------------------------------ column types
\* k: Null | Int64 | Float64 | String | List | Struct
\* e: <<inner type>> of a List; f, ft: field names and types of a Struct.
DT(kind) == [k |-> kind, f |-> <<>>, ft |-> <<>>, e |-> <<>>]
DList(inner) == [k |-> "List", f |-> <<>>, ft |-> <<>>, e |-> <<inner>>]
DStruct(names, types) == [k |-> "Struct", f |-> names, ft |-> types, e |-> <<>>]

\* The wider of two inferred types: Null gives way to anything, List(Null) to
\* any List.
Merge(d1, d2) ==
    IF d1.k = "Null" THEN d2
    ELSE IF d1.k = "List" /\ d1.e[1].k = "Null" /\ d2.k = "List" THEN d2
    ELSE d1

RECURSIVE MergeAll(_)
MergeAll(ds) ==
    IF Len(ds) = 0 THEN DT("Null") ELSE Merge(Head(ds), MergeAll(Tail(ds)))

RECURSIVE DTypeOf(_)
DTypeOf(v) ==
    CASE v.t = "int" -> DT("Int64")
      [] v.t = "float" -> DT("Float64")
      [] v.t = "str" -> DT("String")
      [] v.t = "list" -> DList(MergeAll([j \in 1..Len(v.l) |-> DTypeOf(v.l[j])]))
      [] v.t = "obj" -> DStruct(v.k, [j \in 1..Len(v.l) |-> DTypeOf(v.l[j])])
      [] OTHER -> DT("Null")

\* ------------------------------------------------------------------ tables
\* A table is a sequence of columns [name, dtype, vals]; all vals have the
\* table's height.
Col(name, dtype, vals) == [name |-> name, dtype |-> dtype, vals |-> vals]
EmptyDF == <<>>
Height(df) == IF Len(df) = 0 THEN 0 ELSE Len(df[1].vals)
Width(df) == Len(df)
Names(df) == [j \in 1..Len(df) |-> df[j].name]
HasColumn(df, name) == \E j \in 1..Len(df) : df[j].name = name
ColIdx(df, name) == CHOOSE j \in 1..Len(df) : df[j].name = name
Column(df, name) == df[ColIdx(df, name)]
UniqueNames(df) == \A a, b \in 1..Len(df) : df[a].name = df[b].name => a = b

\* Results of fallible operations on tables.
Ok(df) == [ok |-> TRUE, df |-> df, err |-> "none"]
Err(kind) == [ok |-> FALSE, df |-> EmptyDF, err |-> kind]

\* Whether x is an element of the sequence s.
InSeq(x, s) == \E j \in 1..Len(s) : s[j] = x

RECURSIVE Flatten(_)
Flatten(ss) == IF Len(ss) = 0 THEN <<>> ELSE Head(ss) \o Flatten(Tail(ss))

\* ---------------------------------------------------------- schema inference
\* Keys of the records, in order of first appearance.
RECURSIVE UnionKeys(_, _)
UnionKeys(rows, acc) ==
    IF Len(rows) = 0 THEN acc
    ELSE LET new == SelectSeq(Head(rows).k, LAMBDA key : ~InSeq(key, acc))
         IN UnionKeys(Tail(rows), acc \o new)

\* The column of `key`: its type is the widest of its cells' types, a record
\* without the key has null.
InferColumn(rows, key) ==
    Col(key,
        MergeAll([r \in 1..Len(rows) |-> DTypeOf(Field(rows[r], key))]),
        [r \in 1..Len(rows) |-> Field(rows[r], key)])

\* (The keys are bound by a set constructor so that they are computed once.)
RowsToTable(rows) ==
    CHOOSE df \in {[j \in 1..Len(keys) |-> InferColumn(rows, keys[j])] :
                      keys \in {UnionKeys(rows, <<>>)}} : TRUE

\* JsonReader::new(file).infer_schema_len(..).finish(): an array of records is
\* one row per record, a single object is one row; anything else is an error.
JsonReaderFinish(content) ==
    IF content.t = "obj" THEN Ok(RowsToTable(<<content>>))
    ELSE IF content.t = "list" /\ \A j \in 1..Len(content.l) : content.l[j].t = "obj"
    THEN Ok(RowsToTable(content.l))
    ELSE Err("Parquet")

\* --------------------------------------------------------- table operations
\* An explode that gives a row with an empty or null list no output row.
ExplodeDropsEmpty(df, name) ==
    LET c == Column(df, name)
        h == Height(df)
        idx == Flatten([r \in 1..h |-> [q \in 1..Len(c.vals[r].l) |-> r]])
        elems == Flatten([r \in 1..h |-> c.vals[r].l])
    IN IF c.dtype.k # "List" THEN Err("Polars")
       ELSE Ok([j \in 1..Len(df) |->
                  IF df[j].name = name
                  THEN Col(name, c.dtype.e[1], elems)
                  ELSE Col(df[j].name, df[j].dtype,
                           [q \in 1..Len(idx) |-> df[j].vals[idx[q]]])])

\* DataFrame::explode([name]): one output row per list element, the other
\* columns' values repeated; a row whose list is empty or null gives one row
\* holding null.
Explode(df, name) ==
    LET c == Column(df, name)
        h == Height(df)
        full(r) == c.vals[r].t = "list" /\ Len(c.vals[r].l) > 0
        idx == Flatten([r \in 1..h |->
                   IF full(r) THEN [q \in 1..Len(c.vals[r].l) |-> r] ELSE <<r>>])
        elems == Flatten([r \in 1..h |-> IF full(r) THEN c.vals[r].l ELSE <<VNull>>])
    IN IF c.dtype.k # "List" THEN Err("Polars")
       ELSE Ok([j \in 1..Len(df) |->
                  IF df[j].name = name
                  THEN Col(name, c.dtype.e[1], elems)
                  ELSE Col(df[j].name, df[j].dtype,
                           [q \in 1..Len(idx) |-> df[j].vals[idx[q]]])])

\* DataFrame::unnest([name]): the struct's fields become columns in place of
\* the column; an error when the column is no struct or a field's name is
\* already a column's.
Unnest(df, name) ==
    LET i == ColIdx(df, name)
        c == df[i]
        fields == [j \in 1..Len(c.dtype.f) |->
                     Col(c.dtype.f[j], c.dtype.ft[j],
                         [r \in 1..Height(df) |-> Field(c.vals[r], c.dtype.f[j])])]
        out == SubSeq(df, 1, i - 1) \o fields \o SubSeq(df, i + 1, Len(df))
    IN IF c.dtype.k # "Struct" THEN Err("Polars")
       ELSE IF ~UniqueNames(out) THEN Err("Polars")
       ELSE Ok(out)

\* DataFrame::drop(name)
Drop(df, name) == SelectSeq(df, LAMBDA c : c.name # name)

\* ------------------------------------------------------------ Root Unnester
\* Option<&str>: <<>> is None, <<s>> is Some(s).
None == <<>>
Some(s) == <<s>>

\* The guard without its test for the empty string.
RootAppliesNoEmptyCheck(df, root) ==
    /\ root # None
    /\ HasColumn(df, root[1])

\* The guard of the normalization: a root path that is present, not empty
\* and names a column.
RootApplies(df, root) ==
    /\ root # None
    /\ root[1] # ""
    /\ HasColumn(df, root[1])

\* explode(..)?.unnest(..)? of the List branch.
ExplodeUnnest(df, name) ==
    LET e == Explode(df, name)
    IN IF e.ok THEN Unnest(e.df, name) ELSE e

\* unnest(..).unwrap_or(dataframe) of the fallback branch.
UnnestOrSelf(df, name) ==
    LET u == Unnest(df, name)
    IN IF u.ok THEN u ELSE Ok(df)

RootUnnest(df, root) ==
    IF ~RootApplies(df, root) THEN Ok(df)
    ELSE LET kind == Column(df, root[1]).dtype.k
         IN CASE kind = "List" -> ExplodeUnnest(df, root[1])
              [] kind = "Struct" -> Unnest(df, root[1])
              [] OTHER -> UnnestOrSelf(df, root[1])

\* ------------------------------------------------------------ Column Pruner
\* The list with "links" forgotten.
technical_cols_short ==
    << "totalRegistros", "totalPaginas", "paginasRestantes",
       "dataHoraConsulta", "timeZoneAtual", "dataHoraAtualizacao" >>

technical_cols ==
    << "totalRegistros", "totalPaginas", "paginasRestantes", "links",
       "dataHoraConsulta", "timeZoneAtual", "dataHoraAtualizacao" >>

\* One turn of the loop: drop the column if the table has it.
PruneOne(df, col) == IF HasColumn(df, col) THEN Drop(df, col) ELSE df

RECURSIVE PruneFrom(_, _)
PruneFrom(df, cols) ==
    IF Len(cols) = 0 THEN df ELSE PruneFrom(PruneOne(df, Head(cols)), Tail(cols))

Prune(df) == PruneFrom(df, technical_cols)

\* -------------------------------------------------------- Byte-List Repairer
\* Every list column taken for a list of character codes.
IsAnyList(dtype) == dtype.k = "List"

\* The columns byte_arrays rewrites: List(Int64) and List(Float64).
IsByteList(dtype) ==
    dtype.k = "List" /\ dtype.e[1].k \in {"Int64", "Float64"}

\* The non-strict cast of a number to UInt8: a value out of range is null.
ToU8(v) == IF v.t \in {"int", "float"} /\ v.i >= 0 /\ v.i <= 255 THEN v.i ELSE -1

\* Whether the bytes are UTF-8, for sequences of one- and two-byte characters
\* (every other lead byte is rejected).
RECURSIVE ValidUtf8(_)
ValidUtf8(bs) ==
    IF Len(bs) = 0 THEN TRUE
    ELSE IF bs[1] < 128 THEN ValidUtf8(Tail(bs))
    ELSE IF bs[1] >= 194 /\ bs[1] <= 223 /\ Len(bs) >= 2 /\ bs[2] >= 128 /\ bs[2] <= 191
    THEN ValidUtf8(Tail(Tail(bs)))
    ELSE FALSE

\* One cell of a repaired column: the list's numbers as bytes, read as text.
\* A null list, or a list holding a number that is no byte, is null.
CellBytes(v) == [j \in 1..Len(v.l) |-> ToU8(v.l[j])]
HasNoByte(v) == \E j \in 1..Len(v.l) : ToU8(v.l[j]) = -1
CellRepairable(v) == v.t # "list" \/ HasNoByte(v) \/ ValidUtf8(CellBytes(v))
RepairCell(v) == IF v.t # "list" \/ HasNoByte(v) THEN VNull ELSE VStr(CellBytes(v))

\* cast(List(UInt8)) .. apply_to_inner(cast Binary) .. cast(String) of one
\* column: an error when some row's bytes are no UTF-8.
RepairColumn(c) ==
    IF \A r \in 1..Len(c.vals) : CellRepairable(c.vals[r])
    THEN Ok(<<Col(c.name, DT("String"), [r \in 1..Len(c.vals) |-> RepairCell(c.vals[r])])>>)
    ELSE Err("Polars")

\* df.replace(name, series): the column at name's place, keeping the name.
Replace(df, name, c) ==
    [j \in 1..Len(df) |-> IF df[j].name = name THEN Col(name, c.dtype, c.vals) ELSE df[j]]

RECURSIVE ByteArraysFrom(_, _)
ByteArraysFrom(df, names) ==
    IF Len(names) = 0 THEN Ok(df)
    ELSE LET s == Column(df, Head(names))
             clean == RepairColumn(s)
         IN IF ~IsByteList(s.dtype) THEN ByteArraysFrom(df, Tail(names))
            ELSE IF ~clean.ok THEN clean
            ELSE ByteArraysFrom(Replace(df, Head(names), clean.df[1]), Tail(names))

byte_arrays(df_internal) == ByteArraysFrom(df_internal, Names(df_internal))

\* What a call of byte_arrays can return. The chain casts the numbers of a
\* list to Binary one by one (apply_to_inner keeps one value per number) and
\* then casts the list column itself to String: polars defines no cast that
\* joins the values of a list into one text, and a build whose polars rejects
\* the cast of a list column returns the error from the first column the
\* test selects. The text read from the bytes is what the doc comment says
\* the chain gives.
byte_arrays_results(df_internal) ==
    {byte_arrays(df_internal)} \cup
    (IF \E j \in 1..Len(df_internal) : IsByteList(df_internal[j].dtype)
     THEN {Err("Polars")}
     ELSE {})

\* ------------------------------------------------------------------- inputs
\* Raw files the download layer can leave on disk.
Txt(n) == VStr(<<65, 64 + n>>)
Rec(j) == VObj(<<"id", "nome">>, <<VInt(j), Txt(j)>>)
Recs(n) == VList([j \in 1..n |-> Rec(j)])
Item(j) == VObj(<<"cod", "qt">>, <<VInt(j), VInt(10 * j)>>)
Items(n) == VList([j \in 1..n |-> Item(j)])

\* [..records..] at the document root.
BareArray(n) == Recs(n)
\* {"resultado": [..records..], "totalRegistros": n, "links": ".."}
Envelope(n) ==
    VObj(<<"resultado", "totalRegistros", "links">>, <<Recs(n), VInt(n), Txt(0)>>)
\* Two records, each with its own list of items; the second has no timestamp.
Nested(k1, k2) ==
    VList(<< VObj(<<"id", "itens", "dataHoraConsulta">>, <<VInt(1), Items(k1), Txt(1)>>),
             VObj(<<"id", "itens">>, <<VInt(2), Items(k2)>>) >>)
\* {"dados": {..one record..}, "timeZoneAtual": ".."}
StructRoot ==
    VObj(<<"dados", "timeZoneAtual">>,
         <<VObj(<<"id", "links">>, <<VInt(1), Txt(2)>>), Txt(3)>>)
\* The payload's field "id" is also a field of the envelope.
ListCollide == VObj(<<"id", "resultado">>, <<VInt(9), Recs(1)>>)
StructCollide == VObj(<<"id", "dados">>, <<VInt(9), Rec(1)>>)
\* "resultado" holds a scalar, or a list of numbers.
ScalarRoot == VObj(<<"resultado">>, <<VInt(5)>>)
NumberListRoot == VObj(<<"resultado">>, <<VList(<<VInt(1), VInt(2)>>)>>)

\* A key that is the empty string: {"": {..one record..}, "id": 7}
EmptyKey == VObj(<<"", "id">>, <<VObj(<<"cod">>, <<VInt(1)>>), VInt(7)>>)

\* Character codes as upstream serializes them: "Ana", "e" with an acute accent
\* (two bytes), a lone byte that is no UTF-8, a number that is no byte.
CodeSamples == << <<65, 110, 97>>, <<195, 169>>, <<255>>, <<300>> >>
Codes(q) == VList([j \in 1..Len(CodeSamples[q]) |-> VInt(CodeSamples[q][j])])
Floats(q) == VList([j \in 1..Len(CodeSamples[q]) |-> VFloat(CodeSamples[q][j])])
ByteLists(q) ==
    VList(<< VObj(<<"id", "descricao", "valores", "tags", "paginasRestantes">>,
                  <<VInt(1), Codes(q), Floats(1), VList(<<Txt(4)>>), VInt(0)>>),
             VObj(<<"id", "descricao", "valores", "tags">>,
                  <<VInt(2), Codes(1), VList(<<>>), VList(<<Txt(5)>>)>>) >>)

Docs ==
    {VInvalid, StructRoot, ListCollide, StructCollide, ScalarRoot, NumberListRoot,
     EmptyKey}
    \cup {BareArray(n) : n \in 0..MaxRows}
    \cup {Envelope(n) : n \in 0..MaxList}
    \cup {Nested(k1, k2) : k1 \in 0..MaxList, k2 \in 0..MaxList}
    \cup {ByteLists(q) : q \in 1..Len(CodeSamples)}

RootPaths ==
    {None, Some(""), Some("resultado"), Some("dados"), Some("itens"),
     Some("descricao"), Some("nome"), Some("ausente")}

\* What the run loop's downloads leave on disk.
MainDocs ==
    {VInvalid, BareArray(1), ScalarRoot, NumberListRoot}
    \cup {Envelope(n) : n \in 0..MaxList}

\* -------------------------------------------------------------- file system
\* st: absent | raw (a downloaded document) | old (a columnar file of an
\* earlier run) | partial (created, not completely written) | complete |
\* removed (deleted by the program).
NoFile == [st |-> "absent", content |-> VNull, df |-> EmptyDF]
RawFile(doc) == [st |-> "raw", content |-> doc, df |-> EmptyDF]
OldFile == [st |-> "old", content |-> VNull, df |-> EmptyDF]
Truncated == [st |-> "partial", content |-> VNull, df |-> EmptyDF]
Written(df) == [st |-> "complete", content |-> VNull, df |-> df]
Removed == [st |-> "removed", content |-> VNull, df |-> EmptyDF]

\* Endpoint names are 1..MaxEndpoints; Unit names the one unit of a direct
\* call of process_json_to_parquet.
Unit == 0
Endpoints == 1..MaxEndpoints
RawPath(nome) == [kind |-> "raw", nome |-> nome]
\* Every endpoint given the same destination file.
ParquetPathShared(nome) == [kind |-> "parquet", nome |-> Unit]
ParquetPath(nome) == [kind |-> "parquet", nome |-> nome]
Paths == [kind : {"raw", "parquet"}, nome : {Unit} \cup Endpoints]

\* The catalogs load_config can return: the endpoints in iteration order.
\* Endpoint names are interchangeable, so the n endpoints of a catalog are
\* named by the order in which the loop meets them.
Catalogs == {[j \in 1..n |-> j] : n \in 1..MaxEndpoints}

\* --------------------------------------------------- process_raw_to_parquet
\* Result<(usize, usize), Box<dyn Error>>
ResOk(rows, cols) == [ok |-> TRUE, rows |-> rows, cols |-> cols, err |-> "none"]
ResErr(kind) == [ok |-> FALSE, rows |-> 0, cols |-> 0, err |-> kind]
NoRes == [ok |-> FALSE, rows |-> 0, cols |-> 0, err |-> "pending"]

HasKey(o, key) == o.t = "obj" /\ InSeq(key, o.k)

\* The I/O step that fails in one call, if any.
IoFaults == {"none", "open", "create", "write"}

\* The call on the files at input_path and output_path: the result and the
\* file it leaves at output_path.
process_raw_to_parquet(input, output, io) ==
    LET json_envelope == input.content
        lista_dados == Field(json_envelope, "resultado")
        df == JsonReaderFinish(lista_dados)
    IN IF input.st # "raw" \/ io = "open" THEN [res |-> ResErr("open"), out |-> output]
       ELSE IF json_envelope.t = "invalid" THEN [res |-> ResErr("json"), out |-> output]
       ELSE IF ~HasKey(json_envelope, "resultado")
       THEN [res |-> ResErr("ausente"), out |-> output]
       ELSE IF lista_dados.t # "list" THEN [res |-> ResErr("nao_lista"), out |-> output]
       ELSE IF Len(lista_dados.l) = 0 THEN [res |-> ResOk(0, 0), out |-> output]
       ELSE IF ~df.ok THEN [res |-> ResErr("dataframe"), out |-> output]
       ELSE IF io = "create" THEN [res |-> ResErr("create"), out |-> output]
       ELSE IF io = "write" THEN [res |-> ResErr("write"), out |-> Truncated]
       ELSE [res |-> ResOk(Height(df.df), Width(df.df)), out |-> Written(df.df)]

\* -------------------------------------------------------------------- state
VARIABLES
    entry,       \* "library": one call of process_json_to_parquet; "binary": main
    fs,          \* the files, by path
    pc,          \* process_json_to_parquet: the step about to run
    rootPath,    \* its root_path argument
    dataframe,   \* its table
    prev,        \* the table as it entered the stage that ran last
    ret,         \* what it returned: [kind, stage]
    trace,       \* the stages it completed, in order
    mpc,         \* main: the step about to run
    dirExists,   \* whether the output directory exists
    catalog,     \* config.endpoints, in iteration order
    pos,         \* the loop's position in the catalog
    res,         \* the last result of process_raw_to_parquet
    outcome,     \* per endpoint: how its turn of the loop ended
    abortCause,  \* why main returned an error
    units        \* "calls": two calls of process_json_to_parquet in flight

vars ==
    <<entry, fs, pc, rootPath, dataframe, prev, ret, trace,
      mpc, dirExists, catalog, pos, res, outcome, abortCause, units>>

libVars == <<pc, rootPath, dataframe, prev, ret, trace>>
mainVars == <<mpc, dirExists, catalog, pos, res, outcome, abortCause>>

Running == [kind |-> "none", stage |-> "none"]
Failed(kind, stage) == [kind |-> kind, stage |-> stage]
Returned == [kind |-> "Ok", stage |-> "none"]

\* No concurrent calls: the single call and main run alone.
NoUnits == [start |-> <<>>, call |-> <<>>]

InitLibrary ==
    /\ entry = "library"
    /\ \E doc \in Docs \cup {VNull}, old \in {NoFile, OldFile} :
         fs = [p \in Paths |->
                 IF p = RawPath(Unit) THEN (IF doc = VNull THEN NoFile ELSE RawFile(doc))
                 ELSE IF p = ParquetPath(Unit) THEN old
                 ELSE NoFile]
    /\ rootPath \in RootPaths
    /\ pc = "open"
    /\ dataframe = EmptyDF
    /\ prev = EmptyDF
    /\ ret = Running
    /\ trace = <<>>
    /\ mpc = "idle"
    /\ dirExists = TRUE
    /\ catalog = <<>>
    /\ pos = 0
    /\ res = NoRes
    /\ outcome = [e \in Endpoints |-> "pending"]
    /\ abortCause = "none"
    /\ units = NoUnits

InitBinary ==
    /\ entry = "binary"
    /\ fs = [p \in Paths |-> NoFile]
    /\ rootPath = None
    /\ pc = "idle"
    /\ dataframe = EmptyDF
    /\ prev = EmptyDF
    /\ ret = Running
    /\ trace = <<>>
    /\ mpc = "setup"
    /\ dirExists \in BOOLEAN
    /\ catalog = <<>>
    /\ pos = 0
    /\ res = NoRes
    /\ outcome = [e \in Endpoints |-> "pending"]
    /\ abortCause = "none"
    /\ units = NoUnits

Init == InitLibrary \/ InitBinary

\* -------------------------------------------------- process_json_to_parquet
\* The destination file created before the raw file is parsed.
StageAfterCreatesFirst(step) ==
    CASE step = "open" -> "create"
      [] step = "create" -> "parse"
      [] step = "parse" -> "check"
      [] step = "check" -> "unnest"
      [] step = "unnest" -> "prune"
      [] step = "prune" -> "repair"
      [] step = "repair" -> "write"
      [] step = "write" -> "remove"
      [] OTHER -> "ok"

\* The column pruner left out of the sequence.
StageAfterSkipsPrune(step) ==
    CASE step = "open" -> "parse"
      [] step = "parse" -> "check"
      [] step = "check" -> "unnest"
      [] step = "unnest" -> "repair"
      [] step = "repair" -> "create"
      [] step = "create" -> "write"
      [] step = "write" -> "remove"
      [] OTHER -> "ok"

\* The step that follows each step that succeeded.
StageAfter(step) ==
    CASE step = "open" -> "parse"
      [] step = "parse" -> "check"
      [] step = "check" -> "unnest"
      [] step = "unnest" -> "prune"
      [] step = "prune" -> "repair"
      [] step = "repair" -> "create"
      [] step = "create" -> "write"
      [] step = "write" -> "remove"
      [] OTHER -> "ok"

\* An early return with an error: nothing else changes.
Fail(kind) ==
    /\ pc' = "err"
    /\ ret' = Failed(kind, pc)
    /\ UNCHANGED <<rootPath, dataframe, prev, trace>>

\* File::open(json_path).map_err(ProcessorError::Io)?
OpenRaw ==
    /\ entry = "library" /\ pc = "open"
    /\ \/ /\ fs[RawPath(Unit)].st = "raw"
          /\ pc' = StageAfter(pc)
          /\ UNCHANGED <<rootPath, dataframe, prev, ret, trace>>
       \/ Fail("Io")
    /\ UNCHANGED <<entry, units, fs, mainVars>>

\* JsonReader::new(file).infer_schema_len(..).finish().map_err(..)?
ParseJson ==
    /\ entry = "library" /\ pc = "parse"
    /\ LET r == JsonReaderFinish(fs[RawPath(Unit)].content)
       IN IF r.ok
          THEN /\ dataframe' = r.df
               /\ prev' = dataframe
               /\ pc' = StageAfter(pc)
               /\ UNCHANGED <<rootPath, ret, trace>>
          ELSE Fail("Parquet")
    /\ UNCHANGED <<entry, units, fs, mainVars>>

\* The check for an empty table left out.
IsEmptyTableNever(df) == FALSE

\* if dataframe.height() == 0 { return Err(ProcessorError::Schema(..)) }
IsEmptyTable(df) == Height(df) = 0

CheckEmpty ==
    /\ entry = "library" /\ pc = "check"
    /\ IF IsEmptyTable(dataframe)
       THEN Fail("Schema")
       ELSE /\ pc' = StageAfter(pc)
            /\ trace' = Append(trace, "infer")
            /\ UNCHANGED <<rootPath, dataframe, prev, ret>>
    /\ UNCHANGED <<entry, units, fs, mainVars>>

\* The normalization by root_path.
UnnestRoot ==
    /\ entry = "library" /\ pc = "unnest"
    /\ LET r == RootUnnest(dataframe, rootPath)
       IN IF r.ok
          THEN /\ dataframe' = r.df
               /\ prev' = dataframe
               /\ pc' = StageAfter(pc)
               /\ trace' = Append(trace, "unnest")
               /\ UNCHANGED <<rootPath, ret>>
          ELSE Fail("Polars")
    /\ UNCHANGED <<entry, units, fs, mainVars>>

\* The loop over technical_cols.
PruneCols ==
    /\ entry = "library" /\ pc = "prune"
    /\ dataframe' = Prune(dataframe)
    /\ prev' = dataframe
    /\ pc' = StageAfter(pc)
    /\ trace' = Append(trace, "prune")
    /\ UNCHANGED <<rootPath, ret>>
    /\ UNCHANGED <<entry, units, fs, mainVars>>

\* dataframe = byte_arrays(dataframe)?
RepairBytes ==
    /\ entry = "library" /\ pc = "repair"
    /\ \E r \in byte_arrays_results(dataframe) :
          IF r.ok
          THEN /\ dataframe' = r.df
               /\ prev' = dataframe
               /\ pc' = StageAfter(pc)
               /\ trace' = Append(trace, "repair")
               /\ UNCHANGED <<rootPath, ret>>
          ELSE Fail("Polars")
    /\ UNCHANGED <<entry, units, fs, mainVars>>

\* File::create(parquet_path).map_err(ProcessorError::Io)?
CreateOut ==
    /\ entry = "library" /\ pc = "create"
    /\ \/ /\ fs' = [fs EXCEPT ![ParquetPath(Unit)] = Truncated]
          /\ pc' = StageAfter(pc)
          /\ UNCHANGED <<rootPath, dataframe, prev, ret, trace>>
       \/ Fail("Io") /\ UNCHANGED fs
    /\ UNCHANGED <<entry, units, mainVars>>

\* ParquetWriter::new(file_out)..finish(&mut dataframe).map_err(..)?
WriteOut ==
    /\ entry = "library" /\ pc = "write"
    /\ \/ /\ fs' = [fs EXCEPT ![ParquetPath(Unit)] = Written(dataframe)]
          /\ pc' = StageAfter(pc)
          /\ trace' = Append(trace, "write")
          /\ UNCHANGED <<rootPath, dataframe, prev, ret>>
       \/ Fail("Parquet") /\ UNCHANGED fs
    /\ UNCHANGED <<entry, units, mainVars>>

\* fs::remove_file(json_path).map_err(ProcessorError::Io)?; Ok(())
RemoveRaw ==
    /\ entry = "library" /\ pc = "remove"
    /\ \/ /\ fs' = [fs EXCEPT ![RawPath(Unit)] = Removed]
          /\ pc' = StageAfter(pc)
          /\ ret' = Returned
          /\ trace' = Append(trace, "delete")
          /\ UNCHANGED <<rootPath, dataframe, prev>>
       \/ Fail("Io") /\ UNCHANGED fs
    /\ UNCHANGED <<entry, units, mainVars>>

\* --------------------------------------------------------------------- main
Current == catalog[pos]

\* The end of one turn of the for loop: the next endpoint, or the end.
Advance ==
    /\ pos' = pos + 1
    /\ mpc' = IF pos + 1 > Len(catalog) THEN "done" ELSE "fetch"

Abort(cause) ==
    /\ mpc' = "aborted"
    /\ abortCause' = cause

\* A turn that ends normally: the match's arms, and the empty-file branch.
EndTurn(how) ==
    /\ outcome' = [outcome EXCEPT ![Current] = how]
    /\ Advance
    /\ UNCHANGED abortCause

\* The download failed, and the error leaves main.
SkipUnitReturnsErr(how) ==
    /\ outcome' = [outcome EXCEPT ![Current] = how]
    /\ Abort("unit")
    /\ UNCHANGED pos

\* Err(e) => { eprintln!(..); continue; } of the download
SkipUnit(how) ==
    /\ outcome' = [outcome EXCEPT ![Current] = how]
    /\ Advance
    /\ UNCHANGED abortCause

\* if !output_dir.exists() { fs::create_dir(output_dir)?; }
MainSetup ==
    /\ entry = "binary" /\ mpc = "setup"
    /\ \/ /\ dirExists
          /\ mpc' = "load"
          /\ UNCHANGED <<dirExists, abortCause>>
       \/ /\ ~dirExists
          /\ dirExists' = TRUE
          /\ mpc' = "load"
          /\ UNCHANGED abortCause
       \/ /\ ~dirExists
          /\ Abort("create_dir")
          /\ UNCHANGED dirExists
    /\ UNCHANGED <<entry, units, fs, libVars, catalog, pos, res, outcome>>

\* let config = api::load_config(config_path)?;
MainLoad ==
    /\ entry = "binary" /\ mpc = "load"
    /\ \/ /\ \E c \in Catalogs : catalog' = c
          /\ pos' = 1
          /\ mpc' = "fetch"
          /\ UNCHANGED abortCause
       \/ /\ Abort("load_config")
          /\ UNCHANGED <<catalog, pos>>
    /\ UNCHANGED <<entry, units, fs, libVars, dirExists, res, outcome>>

\* api::fetch_data_to_disk(&client, &url, raw_str): the document is on disk,
\* or an error with no file left (a refused URL, a network or status error,
\* an empty body, whose file is removed again), or an error with the file cut
\* short (io::copy failed).
MainFetch ==
    /\ entry = "binary" /\ mpc = "fetch"
    /\ \/ /\ \E doc \in MainDocs : fs' = [fs EXCEPT ![RawPath(Current)] = RawFile(doc)]
          /\ mpc' = "stat"
          /\ UNCHANGED <<pos, outcome, abortCause>>
       \/ /\ SkipUnit("download_failed")
          /\ UNCHANGED fs
       \/ /\ fs' = [fs EXCEPT ![RawPath(Current)] = RawFile(VInvalid)]
          /\ SkipUnit("download_failed")
    /\ UNCHANGED <<entry, units, libVars, dirExists, catalog, res>>

\* The length fs::metadata reports: a downloaded document is never empty.
FileLen(file) == IF file.st = "raw" THEN 1 ELSE 0

\* if fs::metadata(&caminho_raw)?.len() == 0 { remove_file; continue; }
MainStat ==
    /\ entry = "binary" /\ mpc = "stat"
    /\ \/ /\ IF FileLen(fs[RawPath(Current)]) = 0
             THEN /\ fs' = [fs EXCEPT ![RawPath(Current)] = Removed]
                  /\ EndTurn("empty_file")
             ELSE /\ mpc' = "convert"
                  /\ UNCHANGED <<fs, pos, outcome, abortCause>>
       \/ /\ Abort("metadata")
          /\ UNCHANGED <<fs, pos, outcome>>
    /\ UNCHANGED <<entry, units, libVars, dirExists, catalog, res>>

\* analysis::process_raw_to_parquet(raw_str, parquet_str)
MainConvert ==
    /\ entry = "binary" /\ mpc = "convert"
    /\ \E io \in IoFaults :
         \E r \in {process_raw_to_parquet(fs[RawPath(Current)], fs[ParquetPath(Current)], io)} :
            /\ res' = r.res
            /\ fs' = [fs EXCEPT ![ParquetPath(Current)] = r.out]
    /\ mpc' = "cleanup"
    /\ UNCHANGED <<entry, units, libVars, dirExists, catalog, pos, outcome, abortCause>>

\* The raw file is removed whatever the conversion returned.
CleanupRemovesAlways(r) == TRUE

\* The arm of the match that removes the raw file: Ok((linhas, colunas)).
CleanupRemoves(r) == r.ok

\* match .. { Ok(..) => { ..; fs::remove_file(&caminho_raw) (a failure is a
\* warning) } Err(e) => eprintln!(..) }
MainCleanup ==
    /\ entry = "binary" /\ mpc = "cleanup"
    /\ \/ /\ CleanupRemoves(res)
          /\ fs' = [fs EXCEPT ![RawPath(Current)] = Removed]
          /\ EndTurn(IF ~res.ok THEN "convert_failed"
                     ELSE IF res.rows = 0 THEN "no_data" ELSE "converted")
       \/ /\ CleanupRemoves(res)
          /\ UNCHANGED fs
          /\ EndTurn(IF ~res.ok THEN "convert_failed"
                     ELSE IF res.rows = 0 THEN "no_data" ELSE "converted")
       \/ /\ ~CleanupRemoves(res)
          /\ UNCHANGED fs
          /\ EndTurn(IF res.ok THEN "converted" ELSE "convert_failed")
    /\ UNCHANGED <<entry, units, libVars, dirExists, catalog, res>>

\* ------------------------------------------------------------ specification
Next ==
    \/ OpenRaw
    \/ ParseJson
    \/ CheckEmpty
    \/ UnnestRoot
    \/ PruneCols
    \/ RepairBytes
    \/ CreateOut
    \/ WriteOut
    \/ RemoveRaw
    \/ MainSetup
    \/ MainLoad
    \/ MainFetch
    \/ MainStat
    \/ MainConvert
    \/ MainCleanup

Spec == Init /\ [][Next]_vars

\* The steps of the binary alone.
NextMain ==
    \/ MainSetup
    \/ MainLoad
    \/ MainFetch
    \/ MainStat
    \/ MainConvert
    \/ MainCleanup

\* ---------------------------------------------------------- concurrent calls
\* Two units of work in flight at once: process_json_to_parquet called for two
\* endpoints on the paths main derives, the steps of the calls in any order.
UnitDocs == {VInvalid, BareArray(0), BareArray(1), ByteLists(1)}
\* The step of a call that the environment makes fail, if it is reached.
UnitFaults == {"none", "open", "cast", "create", "write", "remove"}

\* The local state of a call that has not started.
NewCall(fault) ==
    [pc |-> "open", rootPath |-> None, dataframe |-> EmptyDF, ret |-> Running,
     fault |-> fault]

\* One step of the call c for endpoint e on the files f: the call and the
\* files after the step.
CallStep(c, f, e) ==
    LET raw == f[RawPath(e)]
        next == [c EXCEPT !.pc = StageAfter(c.pc)]
        fail(kind) ==
            [c |-> [c EXCEPT !.pc = "err", !.ret = Failed(kind, c.pc)], fs |-> f]
        go(df) == [c |-> [next EXCEPT !.dataframe = df], fs |-> f]
        from(r, kind) == IF r.ok THEN go(r.df) ELSE fail(kind)
    IN CASE c.pc = "open" ->
              IF raw.st = "raw" /\ c.fault # "open" THEN go(c.dataframe) ELSE fail("Io")
         [] c.pc = "parse" -> from(JsonReaderFinish(raw.content), "Parquet")
         [] c.pc = "check" ->
              IF IsEmptyTable(c.dataframe) THEN fail("Schema") ELSE go(c.dataframe)
         [] c.pc = "unnest" -> from(RootUnnest(c.dataframe, c.rootPath), "Polars")
         [] c.pc = "prune" -> go(Prune(c.dataframe))
         [] c.pc = "repair" ->
              IF c.fault = "cast" /\ Err("Polars") \in byte_arrays_results(c.dataframe)
              THEN fail("Polars")
              ELSE from(byte_arrays(c.dataframe), "Polars")
         [] c.pc = "create" ->
              IF c.fault = "create" THEN fail("Io")
              ELSE [c |-> next, fs |-> [f EXCEPT ![ParquetPath(e)] = Truncated]]
         [] c.pc = "write" ->
              IF c.fault = "write" THEN fail("Parquet")
              ELSE [c |-> next, fs |-> [f EXCEPT ![ParquetPath(e)] = Written(c.dataframe)]]
         [] c.pc = "remove" ->
              IF c.fault = "remove" THEN fail("Io")
              ELSE [c |-> [next EXCEPT !.ret = Returned],
                    fs |-> [f EXCEPT ![RawPath(e)] = Removed]]
         [] OTHER -> [c |-> c, fs |-> f]

InitUnits ==
    /\ entry = "calls"
    /\ \E a, b \in Endpoints :
         /\ a < b
         /\ \E raws \in [{a, b} -> {RawFile(d) : d \in UnitDocs}],
               olds \in [{a, b} -> {NoFile, OldFile}],
               faults \in [{a, b} -> UnitFaults] :
              /\ fs = [p \in Paths |->
                         IF p.nome \notin {a, b} THEN NoFile
                         ELSE IF p.kind = "raw" THEN raws[p.nome]
                         ELSE olds[p.nome]]
              /\ units = [start |-> fs, call |-> [e \in {a, b} |-> NewCall(faults[e])]]
    /\ rootPath = None
    /\ pc = "idle"
    /\ dataframe = EmptyDF
    /\ prev = EmptyDF
    /\ ret = Running
    /\ trace = <<>>
    /\ mpc = "idle"
    /\ dirExists = TRUE
    /\ catalog = <<>>
    /\ pos = 0
    /\ res = NoRes
    /\ outcome = [e \in Endpoints |-> "pending"]
    /\ abortCause = "none"

\* Some call in flight takes its step at the given stage.
StepAt(stage) ==
    /\ entry = "calls"
    /\ \E e \in DOMAIN units.call :
         /\ units.call[e].pc = stage
         /\ \E r \in {CallStep(units.call[e], fs, e)} :
              /\ fs' = r.fs
              /\ units' = [units EXCEPT !.call[e] = r.c]
    /\ UNCHANGED <<entry, libVars, mainVars>>

UnitOpen == StepAt("open")
UnitParse == StepAt("parse")
UnitCheck == StepAt("check")
UnitUnnest == StepAt("unnest")
UnitPrune == StepAt("prune")
UnitRepair == StepAt("repair")
UnitCreate == StepAt("create")
UnitWrite == StepAt("write")
UnitRemove == StepAt("remove")

NextUnits ==
    \/ UnitOpen
    \/ UnitParse
    \/ UnitCheck
    \/ UnitUnnest
    \/ UnitPrune
    \/ UnitRepair
    \/ UnitCreate
    \/ UnitWrite
    \/ UnitRemove

SpecUnits == InitUnits /\ [][NextUnits]_vars

\* The call c for endpoint e run alone from its step to its return.
RECURSIVE RunCall(_, _, _)
RunCall(c, f, e) ==
    IF c.pc \in {"ok", "err"} THEN [c |-> c, fs |-> f]
    ELSE LET r == CallStep(c, f, e) IN RunCall(r.c, r.fs, e)

\* =================================================================== claims
Library == entry = "library"
Binary == entry = "binary"
LibRaw == fs[RawPath(Unit)]
LibOut == fs[ParquetPath(Unit)]
\* A destination file this run neither created nor wrote.
Untouched(file) == file.st \in {"absent", "old"}
UnitNames == {Unit} \cup Endpoints

\* --------------------------------------------------------------------- C1
\* C1 as stated: a raw file is deleted only when its destination file has been
\* completely written; whenever no destination file was written the raw file
\* is still there.
C1_RawDeletedOnlyAfterWrite ==
    \A n \in UnitNames :
        fs[RawPath(n)].st = "removed" => fs[ParquetPath(n)].st = "complete"

\* C1, amended: a raw file is deleted only after its conversion returned
\* success. process_json_to_parquet deletes it only after the destination file
\* was completely written; main deletes it after process_raw_to_parquet
\* returned Ok, which for an empty record list is (0, 0) with no destination
\* file. When the conversion failed (parsing, normalization, writing) the raw
\* file is still there when the orchestrator returns.
C1_RawDeletedOnlyAfterSuccess ==
    /\ Library =>
         /\ LibRaw.st = "removed" => pc = "ok" /\ LibOut.st = "complete"
         /\ pc = "err" => LibRaw.st # "removed"
    /\ Binary =>
         \A e \in Endpoints :
            /\ fs[RawPath(e)].st = "removed" =>
                 /\ outcome[e] \in {"converted", "no_data"}
                 /\ outcome[e] = "converted" => fs[ParquetPath(e)].st = "complete"
                 /\ outcome[e] = "no_data" => fs[ParquetPath(e)].st = "absent"
            /\ outcome[e] = "convert_failed" => fs[RawPath(e)].st = "raw"

\* One endpoint's empty list was cleaned up with no destination file, another's
\* failed conversion left its raw file.
C1_Witness ==
    /\ Binary
    /\ \E a, b \in Endpoints :
         /\ outcome[a] = "no_data"
         /\ fs[RawPath(a)].st = "removed"
         /\ fs[ParquetPath(a)].st = "absent"
         /\ outcome[b] = "convert_failed"
         /\ fs[RawPath(b)].st = "raw"

\* --------------------------------------------------------------------- C2
\* The table inferred from the raw file of the direct call has no rows.
LibInferredEmpty ==
    /\ Library
    /\ LibRaw.st = "raw"
    /\ pc \notin {"open", "parse", "check"}
    /\ ret.stage \notin {"open", "parse"}
    /\ LET r == JsonReaderFinish(LibRaw.content) IN r.ok /\ Len(r.df) = 0

\* The record list main's conversion read is empty.
BinListEmpty ==
    /\ Binary
    /\ mpc = "cleanup"
    /\ res.err # "open"
    /\ LET doc == fs[RawPath(Current)].content
       IN HasKey(doc, "resultado") /\ Field(doc, "resultado") = VList(<<>>)

\* C2 as stated: a table of 0 rows is reported as the success (0, 0), not as an
\* error, and the destination file is not created.
C2_EmptyTableIsSuccess ==
    /\ LibInferredEmpty /\ pc \in {"ok", "err"} =>
         ret.kind = "Ok" /\ Untouched(LibOut)
    /\ BinListEmpty => res = ResOk(0, 0) /\ fs[ParquetPath(Current)].st = "absent"

\* C2, amended: on a table of 0 rows the orchestrator stops at once and the
\* destination file is neither created nor written; process_raw_to_parquet
\* reports the success (0, 0), process_json_to_parquet returns a Schema error.
C2_EmptyTableShortCircuits ==
    /\ LibInferredEmpty =>
         /\ pc = "err"
         /\ ret = Failed("Schema", "check")
         /\ Untouched(LibOut)
    /\ BinListEmpty => res = ResOk(0, 0) /\ fs[ParquetPath(Current)].st = "absent"

\* An empty array at the root went through the direct call.
C2_Witness ==
    /\ LibInferredEmpty
    /\ LibRaw.content = BareArray(0)
    /\ ret = Failed("Schema", "check")

\* --------------------------------------------------------------------- C3
\* C3: on {"resultado": []} with root path "resultado" the orchestrator returns
\* no error (but for an I/O fault) and writes no destination file: the zero
\* shape is a result, decided on the list at the root path.
C3_EnvelopeEmptyList ==
    /\ ( /\ Library
         /\ LibRaw = RawFile(Envelope(0))
         /\ rootPath = Some("resultado") ) =>
            /\ pc = "err" => ret.kind = "Io"
            /\ Untouched(LibOut)
    /\ ( /\ Binary
         /\ mpc = "cleanup"
         /\ fs[RawPath(Current)] = RawFile(Envelope(0))
         /\ res.err # "open" ) =>
            res = ResOk(0, 0) /\ fs[ParquetPath(Current)].st = "absent"

\* --------------------------------------------------------------------- C4
\* C4: the Root Unnester never fails: no call returns an error from the
\* normalization by root_path.
C4_UnnesterNeverFails == ~(Library /\ pc = "err" /\ ret.stage = "unnest")

\* --------------------------------------------------------------------- C5
Attempted(e) ==
    \/ outcome[e] # "pending"
    \/ mpc \in {"stat", "convert", "cleanup", "aborted"} /\ pos \in DOMAIN catalog /\ Current = e
InCatalog(e) == \E j \in DOMAIN catalog : catalog[j] = e

\* C5: only a setup failure (the output directory, the catalog)
\* ends the run with an error.
C5_OnlySetupAborts ==
    mpc = "aborted" => abortCause \in {"create_dir", "load_config"}

\* The steps main has left at most: every step of main lowers it.
StepsLeft ==
    CASE mpc = "setup" -> 4 * MaxEndpoints + 2
      [] mpc = "load" -> 4 * MaxEndpoints + 1
      [] mpc = "fetch" -> 4 * (Len(catalog) - pos + 1)
      [] mpc = "stat" -> 4 * (Len(catalog) - pos + 1) - 1
      [] mpc = "convert" -> 4 * (Len(catalog) - pos + 1) - 2
      [] mpc = "cleanup" -> 4 * (Len(catalog) - pos + 1) - 3
      [] OTHER -> 0

\* What main does instead: it returns an error for three causes only (the
\* output directory, the catalog, fs::metadata on a downloaded raw file), it
\* has attempted every endpoint of the catalog when it returns Ok, and until
\* it returns it can always take a step, each of which leaves fewer steps.
C5_EveryEndpointAttempted ==
    /\ [](mpc = "aborted" => abortCause \in {"create_dir", "load_config", "metadata"})
    /\ [](mpc = "done" => \A e \in Endpoints : InCatalog(e) => Attempted(e))
    /\ [](Binary /\ mpc \notin {"done", "aborted"} => ENABLED NextMain)
    /\ [][Binary => StepsLeft' < StepsLeft]_vars

\* The run ended after a download that failed, then a conversion that failed,
\* then a turn that worked.
C5_Witness ==
    /\ Binary
    /\ mpc = "done"
    /\ \E i, j \in DOMAIN catalog :
         /\ i < j
         /\ outcome[catalog[i]] \in {"download_failed", "convert_failed"}
         /\ outcome[catalog[j]] \in {"converted", "convert_failed", "download_failed"}

\* --------------------------------------------------------------------- C6
Stages == <<"infer", "unnest", "prune", "repair", "write", "delete">>

\* The number of stages that have succeeded when a step is about to run.
CompletedBefore(step) ==
    CASE step \in {"open", "parse", "check"} -> 0
      [] step = "unnest" -> 1
      [] step = "prune" -> 2
      [] step = "repair" -> 3
      [] step \in {"create", "write"} -> 4
      [] step = "remove" -> 5
      [] OTHER -> 6

\* C6: the stages of one unit run in the order infer, unnest, prune, repair,
\* write, delete: a stage runs only when exactly the stages before it have
\* succeeded, and a call that returns Ok has run each of them once.
C6_StagesInOrder ==
    Library =>
        /\ trace = SubSeq(Stages, 1, Len(trace))
        /\ Len(trace) = CompletedBefore(IF pc = "err" THEN ret.stage ELSE pc)
        /\ pc = "ok" => trace = Stages

C6_Witness == Library /\ pc = "ok" /\ trace = Stages /\ Height(dataframe) > 0

\* --------------------------------------------------------------------- C7
\* The normalization has just run (prev is the table it was given) on a root
\* path that names a column of type list-of-struct.
ExplodedListOfStruct ==
    /\ Library
    /\ pc = "prune"
    /\ rootPath # None
    /\ rootPath[1] # ""
    /\ HasColumn(prev, rootPath[1])
    /\ Column(prev, rootPath[1]).dtype.k = "List"
    /\ Column(prev, rootPath[1]).dtype.e[1].k = "Struct"

RECURSIVE SumTo(_, _)
SumTo(cnt, r) == IF r = 0 THEN 0 ELSE cnt[r] + SumTo(cnt, r - 1)

\* Table O is table T with column p exploded into cnt[r] rows for row r: the
\* struct's fields stand in p's place, row r's other values are repeated on
\* each of its rows, and its q-th row holds the fields of its q-th element
\* (null past the list's end).
ExplodedBy(T, O, p, cnt) ==
    LET i == ColIdx(T, p)
        c == T[i]
        flds == c.dtype.e[1].f
    IN /\ Names(O) = SubSeq(Names(T), 1, i - 1) \o flds \o SubSeq(Names(T), i + 1, Len(T))
       /\ \A j \in 1..Len(O) : Len(O[j].vals) = SumTo(cnt, Height(T))
       /\ \A r \in 1..Height(T) : \A q \in 1..cnt[r] :
            LET o == SumTo(cnt, r - 1) + q
            IN /\ \A j \in 1..Len(T) :
                    j # i => Column(O, T[j].name).vals[o] = T[j].vals[r]
               /\ \A f \in 1..Len(flds) :
                    Column(O, flds[f]).vals[o] =
                        IF q <= Len(c.vals[r].l)
                        THEN Field(c.vals[r].l[q], flds[f])
                        ELSE VNull

ListLen(T, p) == [r \in 1..Height(T) |-> Len(Column(T, p).vals[r].l)]

\* C7: a row whose list has length k gives exactly k rows, for every
\* k >= 0.
C7_ExplodeGivesKRows ==
    ExplodedListOfStruct =>
        ExplodedBy(prev, dataframe, rootPath[1], ListLen(prev, rootPath[1]))

\* What the explode does instead: a row whose list has length k >= 1 gives
\* exactly k rows and a row whose list is empty gives one row, whose struct
\* fields are null.
C7_ExplodeGivesKRowsOrOne ==
    ExplodedListOfStruct =>
        ExplodedBy(prev, dataframe, rootPath[1],
                   [r \in 1..Height(prev) |->
                       IF ListLen(prev, rootPath[1])[r] = 0
                       THEN 1
                       ELSE ListLen(prev, rootPath[1])[r]])

\* A table with an empty list in one row and two elements in another was
\* exploded.
C7_Witness ==
    /\ ExplodedListOfStruct
    /\ \E a, b \in 1..Height(prev) :
         /\ ListLen(prev, rootPath[1])[a] = 0
         /\ ListLen(prev, rootPath[1])[b] = 2
    /\ Height(dataframe) = 3

\* --------------------------------------------------------------------- C8
\* The root path is absent, empty, or names no column of the table.
NoRootColumn(df) ==
    \/ rootPath = None
    \/ rootPath = Some("")
    \/ ~HasColumn(df, rootPath[1])

\* C8: with a root path that is absent, empty or names no column the Root
\* Unnester returns the table as it was (and does not fail).
C8_NoRootIsNoOp ==
    Library =>
        /\ pc = "prune" /\ NoRootColumn(prev) => dataframe = prev
        /\ pc = "err" /\ ret.stage = "unnest" => ~NoRootColumn(dataframe)

\* The empty root path met a table that has a column named "".
C8_Witness ==
    /\ Library
    /\ pc = "prune"
    /\ rootPath = Some("")
    /\ HasColumn(prev, "")
    /\ dataframe = prev

\* --------------------------------------------------------------------- C9
TechnicalNames ==
    {"totalRegistros", "totalPaginas", "paginasRestantes", "links",
     "dataHoraConsulta", "timeZoneAtual", "dataHoraAtualizacao"}

\* C9: the Column Pruner never fails and returns exactly the columns whose
\* names are not technical, in their order, rows unchanged; no technical name
\* is in the schema of a written file.
C9_PrunerRemovesTechnical ==
    Library =>
        /\ pc = "repair" =>
             dataframe = SelectSeq(prev, LAMBDA c : c.name \notin TechnicalNames)
        /\ ~(pc = "err" /\ ret.stage = "prune")
        /\ LibOut.st = "complete" =>
             \A j \in 1..Len(LibOut.df) : LibOut.df[j].name \notin TechnicalNames

\* Two technical columns were pruned from a table that keeps other columns.
C9_Witness ==
    /\ Library
    /\ pc = "repair"
    /\ Cardinality({j \in 1..Len(prev) : prev[j].name \in TechnicalNames}) >= 2
    /\ Len(dataframe) >= 1
    /\ Len(dataframe) = Len(prev) - 2

\* -------------------------------------------------------------------- C10
\* C10: the Byte-List Repairer keeps the column names, their order and the row
\* count, and every column whose type is neither List(Int64) nor
\* List(Float64) keeps its type and values.
C10_RepairTouchesOnlyByteLists ==
    Library /\ pc = "create" =>
        /\ Names(dataframe) = Names(prev)
        /\ \A j \in 1..Len(prev) :
             /\ Len(dataframe[j].vals) = Len(prev[j].vals)
             /\ prev[j].dtype \notin {DList(DT("Int64")), DList(DT("Float64"))} =>
                  dataframe[j] = prev[j]

\* A column of character codes became text beside a list of strings that
\* stayed as it was.
C10_Witness ==
    /\ Library
    /\ pc = "create"
    /\ \E i, j \in 1..Len(prev) :
         /\ prev[i].dtype = DList(DT("Int64"))
         /\ dataframe[i].dtype = DT("String")
         /\ dataframe[i].vals[1] = VStr(<<195, 169>>)
         /\ prev[j].dtype = DList(DT("String"))
         /\ dataframe[j] = prev[j]

\* -------------------------------------------------------------------- C11
\* The numbers of one list, as upstream wrote them.
CodesOf(v) == [j \in 1..Len(v.l) |-> v.l[j].i]

\* A list of character codes, each in 0..255, that are the bytes of UTF-8 text.
ValidCodes(v) ==
    /\ v.t = "list"
    /\ \A j \in 1..Len(v.l) : v.l[j].t \in {"int", "float"} /\ v.l[j].i \in 0..255
    /\ ValidUtf8(CodesOf(v))

\* A column upstream encoded as lists of character codes (a row may be null).
ValidCodeColumn(c) ==
    /\ IsByteList(c.dtype)
    /\ \A r \in 1..Len(c.vals) : c.vals[r].t = "null" \/ ValidCodes(c.vals[r])

\* Every column of character codes of the table holds valid codes, and there
\* is one.
AllCodesValid(df) ==
    /\ \E j \in 1..Len(df) : IsByteList(df[j].dtype)
    /\ \A j \in 1..Len(df) : IsByteList(df[j].dtype) => ValidCodeColumn(df[j])

\* The bytes of the text in a repaired cell are the codes of the list it was.
ReEncodes(before, after) ==
    /\ after.dtype = DT("String")
    /\ Len(after.vals) = Len(before.vals)
    /\ \A r \in 1..Len(before.vals) :
         before.vals[r].t = "list" =>
            after.vals[r].t = "str" /\ after.vals[r].b = CodesOf(before.vals[r])

\* C11: the Byte-List Repairer round-trips: a table whose columns of character
\* codes are all valid (each code in 0..255, the codes valid UTF-8) is
\* repaired, and the text of each repaired row, encoded to its bytes again, is
\* the row's original sequence of numbers ([65, 110, 97] becomes "Ana").
C11_RepairRoundTrips ==
    Library =>
        /\ pc = "err" /\ ret.stage = "repair" => ~AllCodesValid(dataframe)
        /\ pc = "create" =>
             \A j \in 1..Len(prev) :
                ValidCodeColumn(prev[j]) => ReEncodes(prev[j], dataframe[j])

\* -------------------------------------------------------------------- C13
\* The steps of process_json_to_parquet that come before the Columnar Writer.
BeforeWriter == {"open", "parse", "check", "unnest", "prune", "repair"}

\* C13: when a stage before the Columnar Writer fails, process_json_to_parquet
\* returns an error and the destination path is as it was: it was neither
\* created nor truncated, and no step before the writer changes it.
C13_DestinationUntouched ==
    /\ [](Library /\ pc = "err" /\ ret.stage \in BeforeWriter =>
            /\ ret.kind \in {"Io", "Parquet", "Schema", "Polars"}
            /\ Untouched(LibOut))
    /\ [][Library /\ pc \in BeforeWriter => LibOut' = LibOut]_vars

\* The repair failed on codes that are no UTF-8 while an older file was at
\* the destination.
C13_Witness ==
    /\ Library
    /\ pc = "err"
    /\ ret.stage = "repair"
    /\ LibOut = OldFile
    /\ \E j \in 1..Len(dataframe) :
         IsByteList(dataframe[j].dtype) /\ ~ValidCodeColumn(dataframe[j])

\* -------------------------------------------------------------------- C12
Calls == entry = "calls"
InFlight == DOMAIN units.call
Finished == Calls /\ \A e \in InFlight : units.call[e].pc \in {"ok", "err"}

\* The files and the results after the calls ran one after the other, x then y.
Sequentially(x, y) ==
    LET first == RunCall(NewCall(units.call[x].fault), units.start, x)
        second == RunCall(NewCall(units.call[y].fault), first.fs, y)
    IN [fs |-> second.fs, call |-> (x :> first.c) @@ (y :> second.c)]

\* C12: units of work are independent: a step of one call leaves the raw file
\* and the destination file of every other endpoint as they were, and when
\* both calls have returned, whatever the order of their steps, the files and
\* the results are those of running the calls one after the other, in either
\* order.
C12_UnitsIndependent ==
    /\ [][Calls =>
            \A e \in InFlight :
               units'.call[e] = units.call[e] =>
                  /\ fs'[RawPath(e)] = fs[RawPath(e)]
                  /\ fs'[ParquetPath(e)] = fs[ParquetPath(e)]]_vars
    /\ [](Finished =>
            \A x, y \in InFlight :
               x # y =>
                  /\ fs = Sequentially(x, y).fs
                  /\ units.call = Sequentially(x, y).call)

\* Both calls are in the middle of their work: one has created its
\* destination file and not yet written it, the other has written its file
\* and not yet deleted its raw file.
C12_Witness ==
    /\ Calls
    /\ \E x, y \in InFlight :
         /\ x # y
         /\ units.call[x].pc = "write"
         /\ fs[ParquetPath(x)] = Truncated
         /\ units.call[y].pc = "remove"
         /\ fs[ParquetPath(y)].st = "complete"
         /\ fs[RawPath(x)].st = "raw"
         /\ fs[RawPath(y)].st = "raw"

====
